---- MODULE Spec2Model ----
(***************************************************************************)
(* A model of comst.py: the PDF OCR pipeline (recommend a split count,     *)
(* split the page range, digitize each chunk with retries, merge the       *)
(* per-chunk results) and the section segmenter that slices the merged     *)
(* html by a catalog of markers.                                           *)
(*                                                                         *)
(* Strings are sequences of one-character strings; a position is Python's  *)
(* 0-based offset.  File names are sequences of code points, so that       *)
(* sorted() is the code-point order Python uses.                           *)
(***************************************************************************)
EXTENDS Integers, Sequences, FiniteSets, TLC

VARIABLES
    pc,              \* position of the script / handler
    fileSizeBytes,   \* os.path.getsize(pdf_path)
    totalPages,      \* len(reader.pages)
    imagePageCount,  \* pages with page.get_images() non-empty
    recommended,     \* recommend_split_count_advanced(pdf_path)
    numParts,        \* the slider's value
    ranges,          \* generate_split_ranges(total_pages, num_parts)
    run,             \* which press of "OCR start" this is (history)
    chunk,           \* i + 1 of the loop over split_paths
    attempt,         \* attempts made by the current call_api_until_success
    delays,          \* time.sleep(2) calls made by the current call
    lastOutcome,     \* outcome of the current call's latest attempt
    wroteAt,         \* the attempt at which the current call wrote its file, 0 if none
    callSuccess,     \* return value of the current call
    callOrder,       \* chunks whose call began in this run, in order (history)
    returned,        \* <<chunk, success>> of the calls that returned in this run (history)
    jsonDir,         \* JSON_DIR: file name -> contents
    merged,          \* what merge_jsons did in this run
    resultFile,      \* RESULT_DIR/merged_output.json
    html_text,       \* data["content"]["html"] of the uploaded merged json
    sections,        \* the catalog of markers
    secIdx,          \* position of the summary loop in selected_sections
    extractedLog,    \* <<section, extract_section(section)>> per iteration (history)
    summarised,      \* the sections gpt_summarize returned a summary for
    notices          \* st.warning / st.error messages of the summary loop

docVars == <<fileSizeBytes, totalPages, imagePageCount, recommended, numParts, ranges>>
callVars == <<chunk, attempt, delays, lastOutcome, wroteAt, callSuccess, callOrder,
              returned>>
ocrVars == <<run, chunk, attempt, delays, lastOutcome, wroteAt, callSuccess, callOrder,
             returned, jsonDir, merged, resultFile>>
segVars == <<html_text, sections, secIdx, extractedLog, summarised, notices>>
vars == <<pc, docVars, ocrVars, segVars>>

----------------------------------------------------------------------------
(* Bounds of the model *)

MaxPages == 160        \* page counts of documents given to the recommender
MaxSizeSteps == 15     \* file sizes are 0..MaxSizeSteps steps
SizeStepMB == 16       \* ... of SizeStepMB megabytes
MaxSplitPages == 24    \* page counts of documents given to the split flow
MaxOcrPages == 2       \* page counts of documents given to the OCR runs
MaxChosenParts == 2    \* slider values chosen in the OCR runs
MaxRuns == 2           \* presses of "OCR start"
MaxFiles == 2          \* files of a result directory given to merge_jsons alone
MaxHtmlLen == 5        \* length of the html given to the segmenter
MaxMarkerLen == 2      \* length of a catalog marker

(* Program constants *)

SliderMin == 1
SliderMax == 20
NoValue == -1          \* "not computed yet" (no Python value); find()'s "not found"
MaxRetries == 5        \* max_retries=5
SleepSeconds == 2      \* time.sleep(2)

BytesPerMB == 1024 * 1024

Min(a, b) == IF a <= b THEN a ELSE b

----------------------------------------------------------------------------
(* recommend_split_count_advanced *)

\* the if/elif chain on total_pages, with % written for // in the last branch
BaseTierModBug(pages) ==
    IF pages <= 10 THEN 1
    ELSE IF pages <= 30 THEN 3
    ELSE IF pages <= 60 THEN 6
    ELSE IF pages <= 100 THEN 8
    ELSE IF pages <= 150 THEN 10
    ELSE Min(15, pages % 10)

\* the if/elif chain on total_pages
BaseTier(pages) ==
    IF pages <= 10 THEN 1
    ELSE IF pages <= 30 THEN 3
    ELSE IF pages <= 60 THEN 6
    ELSE IF pages <= 100 THEN 8
    ELSE IF pages <= 150 THEN 10
    ELSE Min(15, pages \div 10)

\* avg_size_per_page = (bytes / 2^20) / total_pages, 0 when total_pages = 0;
\* avg > 1.5 and avg > 1.0 as exact integer comparisons
SizeAdjustment(bytes, pages) ==
    IF pages = 0 THEN 0
    ELSE IF 2 * bytes > 3 * BytesPerMB * pages THEN 2
    ELSE IF bytes > BytesPerMB * pages THEN 1
    ELSE 0

\* image_ratio = image_page_count / total_pages, 0 when total_pages = 0;
\* ratio > 0.7 and ratio > 0.4 as exact integer comparisons
ImageAdjustment(imgPages, pages) ==
    IF pages = 0 THEN 0
    ELSE IF 10 * imgPages > 7 * pages THEN 2
    ELSE IF 10 * imgPages > 4 * pages THEN 1
    ELSE 0

recommend_split_count_advanced(bytes, pages, imgPages) ==
    Min(BaseTier(pages) + SizeAdjustment(bytes, pages) + ImageAdjustment(imgPages, pages),
        pages)

----------------------------------------------------------------------------
(* generate_split_ranges: ranges[i+1] is the (start, end) appended for i *)

\* line 68 with an end one page too far
RangeEndOffByOne(total, parts, base, i) ==
    IF i < parts - 1 THEN (i + 1) * base + 1 ELSE total

\* line 68
RangeEnd(total, parts, base, i) ==
    IF i < parts - 1 THEN (i + 1) * base ELSE total

generate_split_ranges(total, parts) ==
    LET base == total \div parts
    IN  [k \in 1..parts |->
            LET i == k - 1
            IN  <<i * base + 1, RangeEnd(total, parts, base, i)>>]

\* split_pdf: the pages written to chunk idx are range(start - 1, end)
ChunkPageCount(rng) == IF rng[2] >= rng[1] THEN rng[2] - rng[1] + 1 ELSE 0

----------------------------------------------------------------------------
(* The script: upload, recommend, slider, "OCR start" up to split_pdf *)

FileSizes == {k * SizeStepMB * BytesPerMB : k \in 0..MaxSizeSteps}

\* lines 131-141: the upload is saved, the recommendation computed, and the
\* slider shows it as its default value
UploadDoc(bytes, pages, imgPages) ==
    /\ pc = "idle"
    /\ fileSizeBytes' = bytes
    /\ totalPages' = pages
    /\ imagePageCount' = imgPages
    /\ recommended' = recommend_split_count_advanced(bytes, pages, imgPages)
    /\ numParts' = recommend_split_count_advanced(bytes, pages, imgPages)
    /\ ranges' = <<>>
    /\ pc' = "uploaded"
    /\ UNCHANGED <<ocrVars, segVars>>

\* line 141: the user moves the slider
MoveSlider(n) ==
    /\ pc = "uploaded"
    /\ n \in SliderMin..SliderMax
    /\ numParts' = n
    /\ UNCHANGED <<pc, fileSizeBytes, totalPages, imagePageCount, recommended, ranges>>
    /\ UNCHANGED <<ocrVars, segVars>>

----------------------------------------------------------------------------
(* File names of JSON_DIR, as code points: "split_" + str(i + 1) + ".json" *)

SplitPrefix == <<115, 112, 108, 105, 116, 95>>     \* "split_"
DotJson == <<46, 106, 115, 111, 110>>              \* ".json"

RECURSIVE Digits(_)
\* str(n) for n >= 0
Digits(n) == IF n < 10 THEN <<48 + n>> ELSE Digits(n \div 10) \o <<48 + (n % 10)>>

JsonName(idx) == SplitPrefix \o Digits(idx) \o DotJson

\* filename.endswith(".json")
EndsWith(name, suffix) ==
    /\ Len(name) >= Len(suffix)
    /\ SubSeq(name, Len(name) - Len(suffix) + 1, Len(name)) = suffix

RECURSIVE StrLess(_, _)
\* Python's a < b on str: code point by code point, a proper prefix is smaller
StrLess(a, b) ==
    IF b = <<>> THEN FALSE
    ELSE IF a = <<>> THEN TRUE
    ELSE IF Head(a) # Head(b) THEN Head(a) < Head(b)
    ELSE StrLess(Tail(a), Tail(b))

\* sorted(os.listdir(input_dir)): the k-th name has k - 1 smaller names
Sorted(names) ==
    [k \in 1..Cardinality(names) |->
        CHOOSE n \in names : Cardinality({m \in names : StrLess(m, n)}) = k - 1]

----------------------------------------------------------------------------
(* merge_jsons *)

\* What json.load(f) gives, as far as data["content"]["html"] sees it:
\*   "html"   - data["content"]["html"] is a string
\*   "nokey"  - data has no "content", or content has no "html": KeyError
\*   "nonmap" - data or data["content"] is not a mapping (null, list, string):
\*              TypeError, which merge_jsons does not catch
Shapes == {"html", "nokey", "nonmap"}

Newline == "\n"

NoMerge == [status |-> "none", html |-> <<>>, diagnostics |-> <<>>, from |-> <<>>]

RECURSIVE MergeLoop(_, _, _, _)
\* the for loop of merge_jsons from the k-th of the sorted names on; acc.from
\* lists the chunk index and the run of each fragment appended to merged_html
MergeLoop(k, names, dir, acc) ==
    IF k > Len(names) THEN [acc EXCEPT !.status = "written"]
    ELSE IF ~EndsWith(names[k], DotJson) THEN MergeLoop(k + 1, names, dir, acc)
    ELSE IF dir[names[k]].shape = "html"
        THEN MergeLoop(k + 1, names, dir,
                [acc EXCEPT !.html = @ \o dir[names[k]].html \o <<Newline>>,
                            !.from = Append(@, <<dir[names[k]].idx, dir[names[k]].run>>)])
    ELSE IF dir[names[k]].shape = "nokey"
        THEN MergeLoop(k + 1, names, dir,
                [acc EXCEPT !.diagnostics = Append(@, names[k])])
    ELSE [acc EXCEPT !.status = "aborted"]

merge_jsons(dir) == MergeLoop(1, Sorted(DOMAIN dir), dir, NoMerge)

Envelope(html) == [api |-> "2.0", content |-> [html |-> html]]

NoFile == [api |-> "none", content |-> [html |-> <<>>]]

----------------------------------------------------------------------------
(* The "OCR start" handler *)

\* lines 143-146: the button runs split_pdf(pdf_path, SPLIT_DIR, num_parts)
StartSplit ==
    /\ pc = "uploaded"
    /\ ranges' = generate_split_ranges(totalPages, numParts)
    /\ pc' = "split"
    /\ run' = run + 1
    /\ chunk' = 0
    /\ attempt' = 0
    /\ delays' = 0
    /\ lastOutcome' = "none"
    /\ wroteAt' = 0
    /\ callSuccess' = FALSE
    /\ callOrder' = <<>>
    /\ returned' = <<>>
    /\ merged' = NoMerge
    /\ UNCHANGED <<fileSizeBytes, totalPages, imagePageCount, recommended, numParts>>
    /\ UNCHANGED <<jsonDir, resultFile, segVars>>

\* line 151: call_api_until_success(path, json_path) is entered for chunk c
BeginCall(c) ==
    /\ chunk' = c
    /\ attempt' = 0
    /\ delays' = 0
    /\ lastOutcome' = "none"
    /\ wroteAt' = 0
    /\ callSuccess' = FALSE
    /\ callOrder' = Append(callOrder, c)

\* line 148: the loop starts with the first of split_paths
EnterLoop ==
    /\ pc = "split"
    /\ pc' = "call"
    /\ BeginCall(1)
    /\ UNCHANGED <<docVars, run, returned, jsonDir, merged, resultFile, segVars>>

\* line 91 with one iteration too many
AttemptsLeftOneMore(n) == n <= MaxRetries

\* line 91: for attempt in range(max_retries)
AttemptsLeft(n) == n < MaxRetries

Failures == {"non200", "exception"}

\* lines 92-105, one iteration: the post, then either the file is written and True
\* returned, or (non-200 status, or an exception of the post or of
\* response.json()) the 2 s sleep
Attempt(outcome, shape, html) ==
    /\ pc = "call"
    /\ AttemptsLeft(attempt)
    /\ attempt' = attempt + 1
    /\ lastOutcome' = outcome
    /\ IF outcome = "ok200"
       THEN /\ jsonDir' = [n \in DOMAIN jsonDir \cup {JsonName(chunk)} |->
                            IF n = JsonName(chunk)
                            THEN [shape |-> shape, html |-> html, idx |-> chunk,
                                  run |-> run,
                                  writes |-> IF n \in DOMAIN jsonDir
                                             THEN jsonDir[n].writes + 1 ELSE 1]
                            ELSE jsonDir[n]]
            /\ wroteAt' = attempt + 1
            /\ callSuccess' = TRUE
            /\ pc' = "returned"
            /\ UNCHANGED delays
       ELSE /\ delays' = delays + 1
            /\ UNCHANGED <<jsonDir, wroteAt, callSuccess, pc>>
    /\ UNCHANGED <<docVars, run, chunk, callOrder, returned, merged, resultFile, segVars>>

\* line 106: the loop is exhausted, return False
GiveUp ==
    /\ pc = "call"
    /\ ~AttemptsLeft(attempt)
    /\ callSuccess' = FALSE
    /\ pc' = "returned"
    /\ UNCHANGED <<docVars, run, chunk, attempt, delays, lastOutcome, wroteAt, callOrder,
                   returned, jsonDir, merged, resultFile, segVars>>

\* lines 148-157 with a loop that stops at the first failed chunk
NextPositionStopOnFailure(c, n, success) ==
    IF c < n /\ success THEN "call" ELSE "merge"

\* lines 148-157: after the call for chunk c of n returned
NextPosition(c, n, success) == IF c < n THEN "call" ELSE "merge"

\* lines 152-155: st.success / st.error, then the next chunk or the merge
AfterCall ==
    /\ pc = "returned"
    /\ returned' = Append(returned, <<chunk, callSuccess>>)
    /\ pc' = NextPosition(chunk, Len(ranges), callSuccess)
    /\ IF NextPosition(chunk, Len(ranges), callSuccess) = "call"
       THEN BeginCall(chunk + 1)
       ELSE UNCHANGED <<chunk, attempt, delays, lastOutcome, wroteAt, callSuccess, callOrder>>
    /\ UNCHANGED <<docVars, run, jsonDir, merged, resultFile, segVars>>

\* lines 157-160: merge_jsons(JSON_DIR, merged_path); an uncaught exception ends
\* the handler before merged_output.json is opened for writing
Merge ==
    /\ pc = "merge"
    /\ LET result == merge_jsons(jsonDir)
       IN  /\ merged' = result
           /\ resultFile' = IF result.status = "written"
                            THEN Envelope(result.html)
                            ELSE resultFile
    /\ pc' = "done"
    /\ UNCHANGED <<docVars, run, callVars, jsonDir, segVars>>

\* the script is ready for the next upload
NewRun ==
    /\ pc = "done"
    /\ run < MaxRuns
    /\ pc' = "idle"
    /\ UNCHANGED <<docVars, ocrVars, segVars>>

----------------------------------------------------------------------------
(* The section segmenter *)

\* html_text[i : i + len(s)] == s, i a 0-based offset
OccursAt(h, s, i) ==
    /\ i >= 0
    /\ i + Len(s) <= Len(h)
    /\ SubSeq(h, i + 1, i + Len(s)) = s

\* h.find(s, from): the lowest offset >= from at which s occurs, or -1
Find(h, s, from) ==
    LET hits == {i \in from..(Len(h) - Len(s)) : OccursAt(h, s, i)}
    IN  IF hits = {} THEN NoValue
        ELSE CHOOSE i \in hits : \A j \in hits : i <= j

\* line 267 searching from start_idx itself
SearchFromStart(start) == start

\* line 267: where the search for the next marker starts
SearchFrom(start) == start + 1

\* extract_section: found = FALSE is None; body is html_text[start_idx:end_idx]
extract_section(section_title, html, catalog) ==
    LET start_idx == Find(html, section_title, 0)
    IN  IF start_idx = NoValue
        THEN [found |-> FALSE, start |-> NoValue, end |-> NoValue, body |-> <<>>]
        ELSE LET next_sections ==
                     {Find(html, catalog[k], SearchFrom(start_idx)) : k \in DOMAIN catalog}
                         \ {NoValue}
                 end_idx == IF next_sections # {}
                            THEN CHOOSE e \in next_sections : \A f \in next_sections : e <= f
                            ELSE Len(html)
             IN  [found |-> TRUE, start |-> start_idx, end |-> end_idx,
                  body |-> SubSeq(html, start_idx + 1, end_idx)]

\* line 307: the button starts the loop over selected_sections (the whole catalog
\* is selected)
PressSummary ==
    /\ pc = "loaded"
    /\ pc' = "summary"
    /\ secIdx' = 1
    /\ UNCHANGED <<docVars, ocrVars, html_text, sections, extractedLog, summarised, notices>>

\* lines 309-322, one iteration: extract, then summarise (gpt_summarize returns
\* or raises) or warn
SummariseNext(gptOk) ==
    /\ pc = "summary"
    /\ secIdx <= Len(sections)
    /\ LET sec == sections[secIdx]
           extracted == extract_section(sec, html_text, sections)
       IN  /\ extractedLog' = Append(extractedLog, extracted)
           /\ IF extracted.found /\ extracted.body # <<>>
              THEN IF gptOk
                   THEN /\ summarised' = summarised \cup {secIdx}
                        /\ UNCHANGED notices
                   ELSE /\ notices' = Append(notices, <<"error", secIdx>>)
                        /\ UNCHANGED summarised
              ELSE /\ notices' = Append(notices, <<"warning", secIdx>>)
                   /\ UNCHANGED summarised
    /\ secIdx' = secIdx + 1
    /\ UNCHANGED <<pc, docVars, ocrVars, html_text, sections>>

\* line 325: the loop is over
EndSummary ==
    /\ pc = "summary"
    /\ secIdx > Len(sections)
    /\ pc' = "summarised"
    /\ UNCHANGED <<docVars, ocrVars, segVars>>

----------------------------------------------------------------------------
(* Initial states *)

EmptyDir == [n \in {} |-> NoFile]

DocIdle ==
    /\ fileSizeBytes = NoValue
    /\ totalPages = NoValue
    /\ imagePageCount = NoValue
    /\ recommended = NoValue
    /\ numParts = NoValue
    /\ ranges = <<>>

CallIdle ==
    /\ chunk = 0
    /\ attempt = 0
    /\ delays = 0
    /\ lastOutcome = "none"
    /\ wroteAt = 0
    /\ callSuccess = FALSE
    /\ callOrder = <<>>
    /\ returned = <<>>
    /\ merged = NoMerge
    /\ resultFile = NoFile

SegIdle ==
    /\ html_text = <<>>
    /\ sections = <<>>
    /\ secIdx = 0
    /\ extractedLog = <<>>
    /\ summarised = {}
    /\ notices = <<>>

\* the script starts with empty directories and nothing uploaded
InitIdle ==
    /\ pc = "idle"
    /\ DocIdle
    /\ run = 0
    /\ jsonDir = EmptyDir
    /\ CallIdle
    /\ SegIdle

----------------------------------------------------------------------------
(* SpecRecommend: the recommender on every bounded document *)

NextRecommend ==
    /\ pc = "idle"
    /\ \E pages \in 1..MaxPages, bytes \in FileSizes :
            \E imgPages \in 0..pages : UploadDoc(bytes, pages, imgPages)

SpecRecommend == InitIdle /\ [][NextRecommend]_vars

----------------------------------------------------------------------------
(* SpecSplit: upload, recommend, choose the part count, split *)

NextSplit ==
    \/ /\ pc = "idle"
       /\ \E pages \in 1..MaxSplitPages, bytes \in FileSizes :
            \E imgPages \in {0, pages} : UploadDoc(bytes, pages, imgPages)
    \/ \E n \in SliderMin..SliderMax : MoveSlider(n)
    \/ StartSplit

SpecSplit == InitIdle /\ [][NextSplit]_vars

----------------------------------------------------------------------------
(* SpecOcr: runs of the whole "OCR start" handler, one after another *)

Fragments == {<<"A">>, <<"B">>}

HandlerStep ==
    \/ EnterLoop
    \/ \E f \in Failures : Attempt(f, "nokey", <<>>)
    \/ \E html \in Fragments : Attempt("ok200", "html", html)
    \/ \E shape \in Shapes \ {"html"} : Attempt("ok200", shape, <<>>)
    \/ GiveUp
    \/ AfterCall
    \/ Merge

\* one run: upload, slider, button, handler
NextOcrRun ==
    \/ /\ pc = "idle"
       /\ \E pages \in 1..MaxOcrPages : UploadDoc(SizeStepMB * BytesPerMB, pages, 0)
    \/ \E n \in SliderMin..Min(SliderMax, MaxChosenParts) : MoveSlider(n)
    \/ StartSplit
    \/ HandlerStep

NextOcr == NextOcrRun \/ NewRun

SpecOcr == InitIdle /\ [][NextOcr]_vars

\* one run of the handler
SpecOcrRun == InitIdle /\ [][NextOcrRun]_vars

\* ... which runs to its end once started: the script is sequential and every
\* post returns or raises
FairSpecOcrRun == SpecOcrRun /\ WF_vars(HandlerStep)

----------------------------------------------------------------------------
(* SpecMerge: merge_jsons on a result directory left by the chunk loop *)

RECURSIVE IndexSets(_)
\* the sets of at most k chunk indices
IndexSets(k) ==
    IF k = 0 THEN {{}}
    ELSE LET smaller == IndexSets(k - 1)
         IN  smaller \cup {S \cup {i} : S \in smaller, i \in SliderMin..SliderMax}

FileChoices == {<<"html", f>> : f \in Fragments} \cup {<<"nokey", <<>>>>, <<"nonmap", <<>>>>}

DirOf(S, choice) ==
    [n \in {JsonName(i) : i \in S} |->
        LET i == CHOOSE j \in S : JsonName(j) = n
        IN  [shape |-> choice[i][1], html |-> choice[i][2], idx |-> i, run |-> 1,
             writes |-> 1]]

InitMerge ==
    /\ pc = "merge"
    /\ DocIdle
    /\ run = 1
    /\ \E S \in IndexSets(MaxFiles) : \E choice \in [S -> FileChoices] :
            jsonDir = DirOf(S, choice)
    /\ CallIdle
    /\ SegIdle

SpecMerge == InitMerge /\ [][Merge]_vars

----------------------------------------------------------------------------
(* SpecSegment: the summary loop on every bounded html and catalog *)

Alphabet == {"a", "b", "x"}
MarkerAlphabet == {"a", "b"}

RECURSIVE Strings(_, _)
\* the strings over alphabet of length at most n
Strings(alphabet, n) ==
    IF n = 0 THEN {<<>>}
    ELSE LET shorter == Strings(alphabet, n - 1)
         IN  shorter \cup {Append(t, c) : t \in shorter, c \in alphabet}

Markers == Strings(MarkerAlphabet, MaxMarkerLen) \ {<<>>}

\* catalogs of one or two markers
Catalogs == {<<m>> : m \in Markers} \cup {<<m, n>> : m \in Markers, n \in Markers}

InitSegment ==
    /\ pc = "loaded"
    /\ DocIdle
    /\ run = 0
    /\ jsonDir = EmptyDir
    /\ CallIdle
    /\ html_text \in Strings(Alphabet, MaxHtmlLen)
    /\ sections \in Catalogs
    /\ secIdx = 0
    /\ extractedLog = <<>>
    /\ summarised = {}
    /\ notices = <<>>

NextSegment ==
    \/ PressSummary
    \/ \E gptOk \in BOOLEAN : SummariseNext(gptOk)
    \/ EndSummary

SpecSegment == InitSegment /\ [][NextSegment]_vars

----------------------------------------------------------------------------
(* Properties *)

Range(seq) == {seq[k] : k \in DOMAIN seq}

\* C1: for 1 <= numParts <= totalPages, generate_split_ranges returns exactly
\* numParts ranges, each with start <= end, the first starting at 1, each next one
\* starting at the previous end + 1, the last ending at totalPages; every page of
\* 1..totalPages lies in exactly one range.
C1_RangesPartition ==
    (pc = "split" /\ 1 <= numParts /\ numParts <= totalPages) =>
        /\ Len(ranges) = numParts
        /\ \A k \in 1..Len(ranges) : ranges[k][1] <= ranges[k][2]
        /\ ranges[1][1] = 1
        /\ \A k \in 1..(Len(ranges) - 1) : ranges[k + 1][1] = ranges[k][2] + 1
        /\ ranges[Len(ranges)][2] = totalPages
        /\ \A page \in 1..totalPages :
              Cardinality({k \in 1..Len(ranges) :
                              ranges[k][1] <= page /\ page <= ranges[k][2]}) = 1

\* a split into at least three parts with a remainder for the last part
C1_Witness ==
    /\ pc = "split"
    /\ numParts >= 3
    /\ numParts < totalPages
    /\ totalPages % numParts # 0
    /\ ChunkPageCount(ranges[numParts]) > ChunkPageCount(ranges[1])

\* C7: in the upload -> recommend -> choose -> split flow the part count given to
\* the partitioner is within 1..totalPages, so no produced range is empty or
\* invalid and no chunk has zero pages.
C7_PartCountClamped ==
    pc = "split" =>
        /\ 1 <= numParts /\ numParts <= totalPages
        /\ \A k \in 1..Len(ranges) :
              ranges[k][1] <= ranges[k][2] /\ ChunkPageCount(ranges[k]) > 0

----------------------------------------------------------------------------

\* the base tier a page count falls in
TierOf(pages) ==
    IF pages <= 10 THEN 1
    ELSE IF pages <= 30 THEN 2
    ELSE IF pages <= 60 THEN 3
    ELSE IF pages <= 100 THEN 4
    ELSE IF pages <= 150 THEN 5
    ELSE 6

\* the larger page counts of the same tier with the same image page ratio
SameTierSameRatio ==
    {q \in (totalPages + 1)..MaxPages :
        TierOf(q) = TierOf(totalPages) /\ (imagePageCount * q) % totalPages = 0}

RecommendedFor(q) ==
    recommend_split_count_advanced(fileSizeBytes, q, (imagePageCount * q) \div totalPages)

\* C6 as stated: for fixed fileSizeBytes and imagePageRatio and p < q of the same
\* base tier, the recommendation for p is <= the recommendation for q.
C6_MonotoneWithinTier ==
    pc = "uploaded" => \A q \in SameTierSameRatio : recommended <= RecommendedFor(q)

\* C6 as amended: the same, for p < q that also get the same size adjustment.
C6_MonotoneSameSizeAdjustment ==
    pc = "uploaded" =>
        \A q \in SameTierSameRatio :
            SizeAdjustment(fileSizeBytes, q) = SizeAdjustment(fileSizeBytes, totalPages)
                => recommended <= RecommendedFor(q)

\* a larger document of the same tier, ratio and size adjustment (not zero) gets a
\* strictly larger recommendation
C6_Witness ==
    /\ pc = "uploaded"
    /\ SizeAdjustment(fileSizeBytes, totalPages) > 0
    /\ imagePageCount > 0
    /\ \E q \in SameTierSameRatio :
          /\ SizeAdjustment(fileSizeBytes, q) = SizeAdjustment(fileSizeBytes, totalPages)
          /\ recommended < RecommendedFor(q)

----------------------------------------------------------------------------

C4_Inv ==
    /\ pc \in {"call", "returned"} =>
          attempt <= MaxRetries /\ delays >= attempt - 1
    /\ (pc = "returned" /\ ~callSuccess) =>
          /\ attempt = MaxRetries
          /\ lastOutcome \in Failures
          /\ delays >= MaxRetries - 1
          /\ delays * SleepSeconds >= 8
          /\ wroteAt = 0
    /\ (pc = "returned" /\ callSuccess) =>
          /\ lastOutcome = "ok200"
          /\ attempt \in 1..MaxRetries
          /\ wroteAt = attempt
          /\ delays = attempt - 1
          /\ JsonName(chunk) \in DOMAIN jsonDir
          /\ jsonDir[JsonName(chunk)].run = run

C4_Step ==
    /\ attempt' > attempt =>
          /\ pc = "call"
          /\ lastOutcome # "ok200"
          /\ attempt < MaxRetries
          /\ attempt' = attempt + 1
          /\ chunk' = chunk
    /\ jsonDir' # jsonDir => lastOutcome' = "ok200" /\ pc' = "returned"

\* C4: when every attempt fails, call_api_until_success makes exactly 5 attempts,
\* sleeps 2 s after each failure (at least 4 sleeps, 8 s), writes no file and
\* returns False; when attempt k <= 5 succeeds, the result is written at that
\* attempt, True is returned and no later attempt is made.
C4_RetryBound == [](C4_Inv) /\ [][C4_Step]_vars

\* chunk 1 failed for good, chunk 2 succeeded at its third attempt
C4_Witness ==
    /\ pc = "returned"
    /\ returned = <<<<1, FALSE>>>>
    /\ chunk = 2
    /\ callSuccess
    /\ attempt = 3
    /\ delays = 2

----------------------------------------------------------------------------

C8_Inv ==
    pc \in {"split", "call", "returned", "merge", "done"} =>
        /\ \A k \in 1..Len(callOrder) : callOrder[k] = k
        /\ \A k \in 1..Len(returned) : returned[k][1] = k
        /\ Len(callOrder) <= Len(ranges)
        /\ Len(returned) <= Len(callOrder)
        /\ Len(callOrder) <= Len(returned) + 1
        /\ pc = "call" => Len(callOrder) = Len(returned) + 1 /\ chunk = Len(callOrder)
        /\ pc \in {"merge", "done"} =>
              Len(callOrder) = Len(ranges) /\ Len(returned) = Len(ranges)
        /\ merged.status # "none" => pc = "done"

\* C8: every chunk 1..N is given to the client exactly once, in ascending order,
\* each call beginning after the previous one returned; a permanent failure does
\* not stop the later chunks; the merge starts only after all N calls returned,
\* and always eventually runs.
C8_SequentialTolerant == [](C8_Inv) /\ ((pc = "split") ~> (pc = "done"))

\* a run of two chunks whose first chunk failed for good, merged
C8_Witness ==
    /\ pc = "done"
    /\ returned = <<<<1, FALSE>>, <<2, TRUE>>>>
    /\ merged.status = "written"

\* C9: the merged document of a run holds exactly the fragments of that run's
\* successfully digitized chunks: no file left by an earlier run contributes, and
\* no per-chunk result file is written more than once.
C9_MergedFromThisRunOnly ==
    (pc = "done" /\ merged.status = "written") =>
        /\ \A k \in DOMAIN merged.from :
              /\ merged.from[k][2] = run
              /\ <<merged.from[k][1], TRUE>> \in Range(returned)
        /\ \A n \in DOMAIN jsonDir : jsonDir[n].writes <= 1

----------------------------------------------------------------------------

\* C2: merge_jsons concatenates the fragments in ascending numeric chunk index
\* (split_2.json before split_10.json).
C2_NumericOrder ==
    (pc = "done" /\ merged.status = "written") =>
        \A a, b \in DOMAIN merged.from :
            a < b => merged.from[a][1] < merged.from[b][1]

RECURSIVE ConcatFragments(_, _)
\* each present fragment followed by one newline, in the order of names
ConcatFragments(names, dir) ==
    IF names = <<>> THEN <<>>
    ELSE (IF dir[Head(names)].shape = "html"
          THEN dir[Head(names)].html \o <<Newline>> ELSE <<>>)
         \o ConcatFragments(Tail(names), dir)

\* C3: for any per-chunk results the merge writes {api: "2.0", content: {html: H}},
\* H the present fragments in visiting order, each followed by a newline; a result
\* without content.html adds nothing, gives exactly one diagnostic and does not
\* abort the merge.
C3_MergeSkipsMissing ==
    pc = "done" =>
        /\ merged.status = "written"
        /\ resultFile = Envelope(ConcatFragments(Sorted(DOMAIN jsonDir), jsonDir))
        /\ Len(merged.diagnostics) =
              Cardinality({n \in DOMAIN jsonDir : jsonDir[n].shape # "html"})

----------------------------------------------------------------------------

Positions(m) == {i \in 0..Len(html_text) : OccursAt(html_text, m, i)}

Pos(k) == CHOOSE i \in Positions(sections[k]) : TRUE

\* every marker occurs exactly once, in catalog order, no two occurrences overlap
WellFormed ==
    /\ \A k \in DOMAIN sections : Cardinality(Positions(sections[k])) = 1
    /\ \A j, k \in DOMAIN sections :
          j < k => Pos(j) + Len(sections[j]) <= Pos(k)

\* C5: when the markers are unique, in catalog order and do not overlap,
\* extract_section(m) is the text from m's occurrence up to the next marker's
\* occurrence (the end of the text for the last marker), so text before the first
\* marker is in no section; a marker that does not occur gives None and the loop
\* goes on with the remaining sections.
C5_SectionSlices ==
    /\ WellFormed =>
          \A k \in DOMAIN extractedLog :
              /\ extractedLog[k].found
              /\ extractedLog[k].start >= Pos(1)
              /\ extractedLog[k].body =
                    SubSeq(html_text, Pos(k) + 1,
                           IF k < Len(sections) THEN Pos(k + 1) ELSE Len(html_text))
    /\ \A k \in DOMAIN extractedLog :
          Positions(sections[k]) = {} =>
              ~extractedLog[k].found /\ <<"warning", k>> \in Range(notices)
    /\ pc = "summary" => Len(extractedLog) = secIdx - 1
    /\ pc = "summarised" => Len(extractedLog) = Len(sections)

\* text, first marker, body, second marker, body: both sections cut exactly
C5_Witness ==
    /\ pc = "summarised"
    /\ WellFormed
    /\ Len(sections) = 2
    /\ Pos(1) > 0
    /\ Len(extractedLog[1].body) > Len(sections[1])
    /\ Len(extractedLog[2].body) > Len(sections[2])

\* C10: for every html, catalog and marker m that occurs in the text, the body of
\* extract_section(m) is non-empty and begins with the whole of m
\* (start < start + len(m) <= end <= len(html)), also when another marker is a
\* substring of m or the same marker is listed twice.
C10_BodyBeginsWithMarker ==
    \A k \in DOMAIN extractedLog :
        extractedLog[k].found =>
            /\ extractedLog[k].body # <<>>
            /\ extractedLog[k].start + Len(sections[k]) <= extractedLog[k].end
            /\ extractedLog[k].end <= Len(html_text)
            /\ SubSeq(extractedLog[k].body, 1, Len(sections[k])) = sections[k]

====
